---- MODULE Spec2Model ----
(***************************************************************************)
(* A model of the CDK plan action (src/src/main.ts, first revision in the  *)
(* file, lines 1-355): one run of run(), with the drift poller             *)
(* detectStackDrift, the resource collector retrieveStackResources and the *)
(* comment steps, against a CloudFormation service whose calls may fail    *)
(* and whose drift detections finish on their own.  Spec follows a run     *)
(* over stacks without resources; SpecMessage applies makeDiffMessage to   *)
(* desired and deployed stacks with resources, changes and drift statuses. *)
(* SpecPoller runs detectStackDrift alone, under weak fairness of its own  *)
(* steps.                                                                  *)
(***************************************************************************)
EXTENDS Integers, Sequences, FiniteSets, TLC

\* ---------------------------------------------------------------- bounds

\* Longest StackSummaries list the ListStacks call returns in the model.
MaxSummaries == 2

\* ------------------------------------------------------ program constants

\* const STACK_DETECTION_TIMEOUT = 300 * 1000 (milliseconds)
STACK_DETECTION_TIMEOUT == 300000

\* await sleep(5000)
SleepMs == 5000

BotLogin == "github-actions[bot]"

TimeoutMessage == "Stack Drift Detection Timeout"

ShellFailedMessage == "Command exit with not 0 code."

\* ---------------------------------------------------------------- inputs

StackNameSet == {"A", "B"}

\* The stack artifacts of the manifest, in manifest order (object keys: no
\* name occurs twice).
DesiredStackLists == {<<"A">>, <<"A", "B">>}

\* The differenceCount values of a template diff: none, or some.
DifferenceCounts == {0, 2}

StackStatusSet == {"CREATE_COMPLETE", "DELETE_COMPLETE", "REVIEW_IN_PROGRESS"}

\* A ListStacks response: summaries in the order the service returns them;
\* the stack id of an entry is unique to the entry.
StackSummaryLists ==
  UNION {
    { [k \in 1..n |-> [StackName |-> f[k][1], StackId |-> k, StackStatus |-> f[k][2]]]
        : f \in [1..n -> StackNameSet \X StackStatusSet] }
    : n \in 0..MaxSummaries }

\* The comments on the pull request before the run.
InitComments ==
  { [id |-> 1, login |-> BotLogin, hasTitle |-> TRUE],
    [id |-> 2, login |-> BotLogin, hasTitle |-> FALSE],
    [id |-> 3, login |-> "someone", hasTitle |-> TRUE] }

\* The comment a successful "gh pr comment" adds: the report starts with the
\* comment title and is authored by the workflow's bot.
NewComment == [id |-> 4, login |-> BotLogin, hasTitle |-> TRUE]

\* What a status poll answers once the detection has ended.
TerminalResponses ==
  { [DetectionStatus |-> "DETECTION_COMPLETE", StackDriftStatus |-> "DRIFTED"],
    [DetectionStatus |-> "DETECTION_COMPLETE", StackDriftStatus |-> "IN_SYNC"],
    [DetectionStatus |-> "DETECTION_COMPLETE", StackDriftStatus |-> "NOT_CHECKED"],
    [DetectionStatus |-> "DETECTION_FAILED", StackDriftStatus |-> "DRIFTED"],
    [DetectionStatus |-> "DETECTION_FAILED", StackDriftStatus |-> "UNKNOWN"] }

NoResponse == [DetectionStatus |-> "NONE", StackDriftStatus |-> "NONE"]

\* Errors of the CloudFormation calls, by command.
\* A value the program finds undefined: a missing key, an optional field
\* that is not set.
Absent == "undefined"

MetadataType == "AWS::CDK::Metadata"

\* Resource types other than the metadata marker.
ResourceTypes == {"AWS::S3::Bucket", "AWS::SQS::Queue"}

LogicalIds == {"R1", "R2"}

\* The key order of a template's Resources object.
LogicalIdOrder == <<"R1", "R2">>

\* The changeImpact values of a resource difference.
ChangeImpacts ==
  { "WILL_UPDATE", "WILL_CREATE", "WILL_REPLACE", "MAY_REPLACE",
    "WILL_DESTROY", "WILL_ORPHAN", "NO_CHANGE" }

\* The StackResourceDriftStatus values of a resource summary.
DriftStatuses == {"NOT_CHECKED", "MODIFIED", "IN_SYNC", "DELETED"}

\* resources.get(logicalId) of a diff without an entry for the id.
NoChange ==
  [changeImpact |-> Absent, newResourceType |-> Absent, resourceType |-> Absent]

\* A diff without resource entries and a template without resources.
NoChanges == [n \in LogicalIds |-> NoChange]

NoResources == [n \in LogicalIds |-> Absent]

CfnErrors ==
  { "ListStacks failed", "GetTemplate failed", "DetectStackDrift failed",
    "DescribeStackDriftDetectionStatus failed", "ListStackResources failed" }

VARIABLES
  pc,                       \* position of run()
  enableDriftDetection,     \* input enable-drift-detection
  replaceComments,          \* input replace-comments
  stackNames,               \* desired stack names (manifest)
  cfnStacks,                \* ListStacks response
  cfnStackNames,            \* filtered deployed stack names
  i,                        \* index of the running for-of loop
  differenceCount,          \* templateDiff[name].differenceCount
  editedStackCount,
  stackDriftDetected,       \* run()'s variable
  outputs,                  \* core.setOutput values, <<>> when not set
  failedMessage,            \* last core.setFailed message, "" when none
  thrown,                   \* message of the error run() threw, "" when none
  elapsed,                  \* new Date().getTime() - driftDetectionStartTime
  driftDetectionRequests,
  detectRes,                \* last status response
  driftFlag,                \* detectStackDrift's local stackDriftDetected
  detections,               \* service side: detection id -> status
  startCalls,               \* DetectStackDrift calls issued (stack names)
  polled,                   \* per request: a status poll was issued
  observed,                 \* requests seen with a terminal detection status
  driftedSeen,              \* a terminal answer had the drift status DRIFTED
  listCalls,                \* ListStackResources calls issued (stack names)
  overdue,                  \* a detection was in progress past the deadline
  message,                  \* the report text, <<>> when not made
  comments,                 \* comments on the pull request
  stackTemplates,           \* desired templates: name -> Resources
  templateDiff,             \* name -> the resource changes of the diff
  cfnStackResourcesSummaries \* name -> the listed resource summaries

vars ==
  << pc, enableDriftDetection, replaceComments, stackNames, cfnStacks,
     cfnStackNames, i, differenceCount, editedStackCount, stackDriftDetected,
     outputs, failedMessage, thrown, elapsed, driftDetectionRequests,
     detectRes, driftFlag, detections, startCalls, polled, observed,
     driftedSeen, listCalls, overdue, message, comments, stackTemplates,
     templateDiff, cfnStackResourcesSummaries >>

\* What makeDiffMessage reads besides the variables of run() above.
reportVars == << stackTemplates, templateDiff, cfnStackResourcesSummaries >>

inputVars == << enableDriftDetection, replaceComments, stackNames >>

pollerVars ==
  << elapsed, driftDetectionRequests, detectRes, driftFlag, detections,
     startCalls, polled, observed, driftedSeen, overdue >>

\* ---------------------------------------------------------------- helpers

Includes(s, x) == \E k \in DOMAIN s : s[k] = x

\* run(), lines 50-55: the names of the summaries that are neither
\* DELETE_COMPLETE nor REVIEW_IN_PROGRESS and are desired stacks.
FilterStackNames(summaries, desired) ==
  LET live == SelectSeq(summaries, LAMBDA s : s.StackStatus # "DELETE_COMPLETE")
      kept == SelectSeq(live, LAMBDA s : s.StackStatus # "REVIEW_IN_PROGRESS")
      names == [k \in 1..Len(kept) |-> kept[k].StackName]
  IN  SelectSeq(names, LAMBDA x : Includes(desired, x))

\* run(), lines 64-68: the number of desired stacks with a non-zero
\* differenceCount.
RECURSIVE CountEdited(_, _)
CountEdited(names, diff) ==
  IF names = <<>> THEN 0
  ELSE (IF diff[Head(names)] # 0 THEN 1 ELSE 0) + CountEdited(Tail(names), diff)

\* Top-level wrapper, line 353: the message core.setFailed receives.
SwallowedMessage(e, old) == old

CaughtMessage(e, old) == e

\* An awaited call that rejects leaves run() through the catch of the
\* top-level wrapper.
RetryCall(position) == position

Rethrow(position) == "failed"

\* A for-of loop over n entries is over when its index has passed the last
\* entry.
LoopDone(k, n) == k > n

\* detectStackDrift, lines 102-107: the loop that starts the detections is
\* over when every deployed stack name has had its start call.
StartedFirst(k, n) == k > 1 \/ k > n

AllStarted(k, n) == LoopDone(k, n)

\* run(), line 73: detectStackDrift is called.
CallsPollerAlways(enabled) == TRUE

CallsPoller(enabled) == enabled

\* detectStackDrift, line 118: leave the wait loop of a request.
BreakAlways(status) == TRUE

BreakOnStatus(status) == status # "DETECTION_IN_PROGRESS"

\* detectStackDrift, line 121.
NeverTimedOut(ms) == FALSE

TimedOutSeconds(ms) == ms > 300

TimedOut(ms) == ms > STACK_DETECTION_TIMEOUT

\* detectStackDrift, lines 127-129.
LastDrifted(flag, status) == status = "DRIFTED"

Drifted(flag, status) == flag \/ status = "DRIFTED"

\* detectStackDrift, lines 112-125: the request polled after an in-progress
\* answer and the sleep is the same request.
NextRoundRobin(j, n) == (j % n) + 1

NextToPoll(j, n) == j

Throw(e) ==
  /\ pc' = Rethrow(pc)
  /\ thrown' = e
  /\ failedMessage' = CaughtMessage(e, failedMessage)

\* ------------------------------------------------------- makeDiffMessage

\* Lines 202-206: the status of a desired stack, from whether its name is in
\* cfnStackNames and from the differenceCount of its diff.
ClassifyDeployed(deployed, count) == IF deployed THEN "diff" ELSE "new"

Classify(deployed, count) ==
  IF deployed THEN (IF count > 0 THEN "diff" ELSE "not_changed") ELSE "new"

\* Line 208: cfnStackResourcesSummaries[stackName] ?? {}; a name that was
\* not collected has no entry.
ResourcesOf(summaries, collected, stackName) ==
  IF Includes(collected, stackName) THEN summaries[stackName] ELSE <<>>

\* Lines 209-212: a listed resource has the drift status MODIFIED.
HasStackDrift(cfnResources) ==
  \E k \in DOMAIN cfnResources : cfnResources[k].DriftStatus = "MODIFIED"

\* Lines 213-215: the stacks the loop passes over without a section.
SkipUnchangedDrifted(status, hasStackDrift) ==
  status = "not_changed" /\ hasStackDrift

SkipStack(status, hasStackDrift) == status = "not_checked" /\ hasStackDrift

\* Lines 223 and 302: StackSummaries.find(s => s.StackName === stackName),
\* the first summary of that name, and its StackId.
FindStackId(summaries, stackName) ==
  LET found == SelectSeq(summaries, LAMBDA s : s.StackName = stackName)
  IN  found[1].StackId

\* Line 268: the resources the row loop passes over.
SkipResource(resourceType) == resourceType = MetadataType

\* Lines 270-296: the text of the Diff cell (each text follows an emoji of
\* its own in the program).
DiffLabelOrphanAsDestroy(impact) ==
  CASE impact = "WILL_UPDATE" -> "Update"
    [] impact = "WILL_CREATE" -> "Create"
    [] impact = "WILL_REPLACE" -> "Replace"
    [] impact = "MAY_REPLACE" -> "May Replace"
    [] impact = "WILL_DESTROY" -> "Destroy"
    [] impact = "WILL_ORPHAN" -> "Destroy"
    [] OTHER -> ""

DiffLabel(impact) ==
  CASE impact = "WILL_UPDATE" -> "Update"
    [] impact = "WILL_CREATE" -> "Create"
    [] impact = "WILL_REPLACE" -> "Replace"
    [] impact = "MAY_REPLACE" -> "May Replace"
    [] impact = "WILL_DESTROY" -> "Destroy"
    [] impact = "WILL_ORPHAN" -> "Remove"
    [] impact = "NO_CHANGE" -> ""
    [] OTHER -> ""

\* A table cell: its text and, for a Markdown link, what the link's URL
\* carries.
Cell(text) == [text |-> text, link |-> <<>>]

\* Lines 298-312: the Drift cell.  The texts of the three known statuses
\* follow a sign in the program (warning, alert, success); any other status
\* is printed as it is, and an undefined one as the empty text.
DriftLabelEmptyOther(driftStatus, stackId, logicalId) ==
  CASE driftStatus = "NOT_CHECKED" -> Cell("(warning) NOT_CHECKED")
    [] driftStatus = "MODIFIED" ->
         [text |-> "(alert) MODIFIED",
          link |-> << [stackId |-> stackId, logicalResourceId |-> logicalId] >>]
    [] driftStatus = "IN_SYNC" -> Cell("(success) IN_SYNC")
    [] OTHER -> Cell("")

DriftLabel(driftStatus, stackId, logicalId) ==
  CASE driftStatus = "NOT_CHECKED" -> Cell("(warning) NOT_CHECKED")
    [] driftStatus = "MODIFIED" ->
         [text |-> "(alert) MODIFIED",
          link |-> << [stackId |-> stackId, logicalResourceId |-> logicalId] >>]
    [] driftStatus = "IN_SYNC" -> Cell("(success) IN_SYNC")
    [] OTHER -> Cell(IF driftStatus = Absent THEN "" ELSE driftStatus)

\* Lines 314-315: change?.newResourceType ?? change?.resourceType ??
\* stackTemplates[stackName].Resources[logicalId]?.Type ?? ''.
ResolveType(change, templateType) ==
  IF change.newResourceType # Absent THEN change.newResourceType
  ELSE IF change.resourceType # Absent THEN change.resourceType
  ELSE IF templateType # Absent THEN templateType
  ELSE ""

\* Lines 257-264 and 317-321: the table has a Drift column.
AlwaysDriftColumn(enabled) == TRUE

HasDriftColumn(enabled) == enabled

TableHeader(enabled) ==
  IF HasDriftColumn(enabled)
  THEN <<"Diff", "Drift", "Type", "Logical ID">>
  ELSE <<"Diff", "Type", "Logical ID">>

\* Lines 267-321: the row of one listed resource.
MakeRow(resource, change, templateType, stackId, enabled) ==
  LET logicalId == resource.LogicalResourceId
      diffMsg == DiffLabel(change.changeImpact)
      driftMsg == DriftLabel(resource.DriftStatus, stackId, logicalId)
      type == ResolveType(change, templateType)
  IN  [logicalId |-> logicalId,
       diffMsg |-> diffMsg,
       driftMsg |-> driftMsg,
       type |-> type,
       cells |-> IF HasDriftColumn(enabled)
                 THEN <<Cell(diffMsg), driftMsg, Cell(type), Cell(logicalId)>>
                 ELSE <<Cell(diffMsg), Cell(type), Cell(logicalId)>>]

\* Lines 266-322: one row for each listed resource, in the order of the
\* listing, the passed-over resources left out.
MakeRows(option, stackName, cfnResources, enabled) ==
  LET shown == SelectSeq(cfnResources,
                         LAMBDA r : ~SkipResource(r.ResourceType))
  IN  [k \in 1..Len(shown) |->
         MakeRow(shown[k],
                 option.templateDiff[stackName][shown[k].LogicalResourceId],
                 option.stackTemplates[stackName][shown[k].LogicalResourceId],
                 FindStackId(option.cfnStacks, stackName),
                 enabled)]

\* Lines 201-323: the section of one desired stack: heading (status sign,
\* name, console links of a deployed stack), diff text, table.
MakeSection(option, stackName, enabled) ==
  LET status == Classify(Includes(option.cfnStackNames, stackName),
                         option.differenceCount[stackName])
      cfnResources == ResourcesOf(option.cfnStackResourcesSummaries,
                                  option.cfnStackNames, stackName)
  IN  [stackName |-> stackName,
       status |-> status,
       link |-> IF status # "new"
                THEN << [stackId |-> FindStackId(option.cfnStacks, stackName),
                         driftStackName |-> stackName] >>
                ELSE <<>>,
       noDifferences |-> option.differenceCount[stackName] = 0,
       header |-> TableHeader(enabled),
       rows |-> MakeRows(option, stackName, cfnResources, enabled)]

\* Lines 200-324: the sections, in the order of stackNames.
FirstSectionOnly(option, names, enabled) ==
  IF names = <<>> THEN <<>> ELSE << MakeSection(option, Head(names), enabled) >>

RECURSIVE MakeSections(_, _, _)
MakeSections(option, names, enabled) ==
  IF names = <<>> THEN <<>>
  ELSE LET stackName == Head(names)
           status == Classify(Includes(option.cfnStackNames, stackName),
                              option.differenceCount[stackName])
           cfnResources == ResourcesOf(option.cfnStackResourcesSummaries,
                                       option.cfnStackNames, stackName)
       IN  (IF SkipStack(status, HasStackDrift(cfnResources))
            THEN <<>>
            ELSE << MakeSection(option, stackName, enabled) >>)
           \o MakeSections(option, Tail(names), enabled)

\* Lines 197-199: the banner says "(No Changes)" when editedStackCount >= 0
\* is false, and "Stack Drift Detected" when the flag is set.
SaysNoChanges(count) == ~(count >= 0)

\* Lines 160-327.
makeDiffMessage(option, enabled) ==
  [noChanges |-> SaysNoChanges(option.editedStackCount),
   driftDetected |-> option.stackDriftDetected,
   sections |-> MakeSections(option, option.stackNames, enabled)]

\* ------------------------------------------------------------------- Init

Init ==
  /\ pc = "synth"
  /\ enableDriftDetection \in BOOLEAN
  /\ replaceComments \in BOOLEAN
  /\ stackNames \in DesiredStackLists
  /\ cfnStacks = <<>>
  /\ cfnStackNames = <<>>
  /\ i = 1
  /\ differenceCount = [n \in StackNameSet |-> 0]
  /\ editedStackCount = 0
  /\ stackDriftDetected = FALSE
  /\ outputs = [editedStackCount |-> <<>>, stackDriftDetected |-> <<>>]
  /\ failedMessage = ""
  /\ thrown = ""
  /\ elapsed = 0
  /\ driftDetectionRequests = <<>>
  /\ detectRes = NoResponse
  /\ driftFlag = FALSE
  /\ detections = <<>>
  /\ startCalls = <<>>
  /\ polled = <<>>
  /\ observed = {}
  /\ driftedSeen = FALSE
  /\ listCalls = <<>>
  /\ overdue = FALSE
  /\ message = <<>>
  /\ comments = InitComments
  /\ stackTemplates = [n \in StackNameSet |-> NoResources]
  /\ templateDiff = [n \in StackNameSet |-> NoChanges]
  /\ cfnStackResourcesSummaries = [n \in StackNameSet |-> <<>>]

\* ------------------------------------------------------------------ run()

\* Lines 35-46: the synth command, then the manifest and the templates are
\* read; a file that is missing throws.
Synth ==
  /\ pc = "synth"
  /\ \/ /\ pc' = "listStacks"
        /\ UNCHANGED << thrown, failedMessage >>
     \/ Throw("ENOENT")
  /\ UNCHANGED << inputVars, cfnStacks, cfnStackNames, i, differenceCount,
                  editedStackCount, stackDriftDetected, outputs, pollerVars,
                  listCalls, message, comments >>

\* Lines 49-55.
ListStacks ==
  /\ pc = "listStacks"
  /\ \E res \in StackSummaryLists :
       /\ cfnStacks' = res
       /\ cfnStackNames' = FilterStackNames(res, stackNames)
  /\ pc' = "getTemplate"
  /\ i' = 1
  /\ UNCHANGED << inputVars, differenceCount, editedStackCount,
                  stackDriftDetected, outputs, failedMessage, thrown,
                  pollerVars, listCalls, message, comments >>

ListStacksFail ==
  /\ pc = "listStacks"
  /\ Throw("ListStacks failed")
  /\ UNCHANGED << inputVars, cfnStacks, cfnStackNames, i, differenceCount,
                  editedStackCount, stackDriftDetected, outputs, pollerVars,
                  listCalls, message, comments >>

\* Lines 57-60, one iteration.
GetTemplate ==
  /\ pc = "getTemplate"
  /\ ~LoopDone(i, Len(cfnStackNames))
  /\ \/ /\ i' = i + 1
        /\ UNCHANGED << pc, thrown, failedMessage >>
     \/ /\ Throw("GetTemplate failed")
        /\ UNCHANGED i
  /\ UNCHANGED << inputVars, cfnStacks, cfnStackNames, differenceCount,
                  editedStackCount, stackDriftDetected, outputs, pollerVars,
                  listCalls, message, comments >>

\* Lines 63-72: the diffs, the edited stack count and its output.
DiffTemplates ==
  /\ pc = "getTemplate"
  /\ LoopDone(i, Len(cfnStackNames))
  /\ \E d \in [StackNameSet -> DifferenceCounts] :
       /\ \A n \in StackNameSet : ~Includes(stackNames, n) => d[n] = 0
       /\ differenceCount' = d
       /\ editedStackCount' = CountEdited(stackNames, d)
       /\ outputs' = [outputs EXCEPT
                        !.editedStackCount = <<CountEdited(stackNames, d)>>]
  /\ stackDriftDetected' = FALSE
  \* lines 73 and 98-101
  /\ pc' = IF CallsPoller(enableDriftDetection)
           THEN "detectStart" ELSE "listResources"
  /\ elapsed' = 0
  /\ driftFlag' = FALSE
  /\ driftDetectionRequests' = <<>>
  /\ i' = 1
  /\ UNCHANGED << inputVars, cfnStacks, cfnStackNames, failedMessage, thrown,
                  detectRes, detections, startCalls, polled, observed,
                  driftedSeen, overdue, listCalls, message, comments >>

\* ------------------------------------------------------- detectStackDrift

\* Lines 102-107, one iteration: the detection is started and its request
\* recorded.
DetectStart ==
  /\ pc = "detectStart"
  /\ ~AllStarted(i, Len(cfnStackNames))
  /\ startCalls' = Append(startCalls, cfnStackNames[i])
  /\ \/ /\ detections' = Append(detections, "DETECTION_IN_PROGRESS")
        /\ driftDetectionRequests' =
             Append(driftDetectionRequests,
                    [stackName |-> cfnStackNames[i],
                     driftDetectionId |-> Len(detections) + 1])
        /\ polled' = Append(polled, FALSE)
        /\ i' = i + 1
        /\ UNCHANGED << pc, thrown, failedMessage >>
     \/ /\ Throw("DetectStackDrift failed")
        /\ UNCHANGED << detections, driftDetectionRequests, polled, i >>
  /\ UNCHANGED << inputVars, cfnStacks, cfnStackNames, differenceCount,
                  editedStackCount, stackDriftDetected, outputs, elapsed,
                  detectRes, driftFlag, observed, driftedSeen, overdue,
                  listCalls,
                  message, comments >>

\* Line 108: the loop over the requests begins with the first request.
StartPolling ==
  /\ pc = "detectStart"
  /\ AllStarted(i, Len(cfnStackNames))
  /\ pc' = "poll"
  /\ i' = 1
  /\ UNCHANGED << inputVars, cfnStacks, cfnStackNames, differenceCount,
                  editedStackCount, stackDriftDetected, outputs,
                  failedMessage, thrown, pollerVars, listCalls, message,
                  comments >>

\* What the service answers to a status poll of detection id.
PollResponses(id) ==
  IF detections[id] = "DETECTION_IN_PROGRESS"
    THEN { [DetectionStatus |-> "DETECTION_IN_PROGRESS",
            StackDriftStatus |-> "NOT_CHECKED"] }
    ELSE TerminalResponses

\* Lines 113-129: one status poll of request i and what follows it: the
\* break and the drift test, the timeout, or the sleep.
Poll ==
  /\ pc = "poll"
  /\ ~LoopDone(i, Len(driftDetectionRequests))
  /\ polled' = [polled EXCEPT ![i] = TRUE]
  /\ \E r \in PollResponses(driftDetectionRequests[i].driftDetectionId) :
       /\ detectRes' = r
       /\ observed' = IF r \in TerminalResponses
                        THEN observed \cup {i} ELSE observed
       /\ driftedSeen' = (driftedSeen \/ (/\ r \in TerminalResponses
                                           /\ r.StackDriftStatus = "DRIFTED"))
       /\ IF BreakOnStatus(r.DetectionStatus)
            THEN /\ driftFlag' = Drifted(driftFlag, r.StackDriftStatus)
                 /\ i' = i + 1
                 /\ UNCHANGED << pc, thrown, failedMessage >>
            ELSE /\ IF TimedOut(elapsed)
                      THEN Throw(TimeoutMessage)
                      ELSE /\ pc' = "sleep"
                           /\ UNCHANGED << thrown, failedMessage >>
                 /\ UNCHANGED << driftFlag, i >>
  /\ UNCHANGED << inputVars, cfnStacks, cfnStackNames, differenceCount,
                  editedStackCount, stackDriftDetected, outputs, elapsed,
                  driftDetectionRequests, detections, startCalls, overdue,
                  listCalls, message, comments >>

PollFail ==
  /\ pc = "poll"
  /\ ~LoopDone(i, Len(driftDetectionRequests))
  /\ polled' = [polled EXCEPT ![i] = TRUE]
  /\ Throw("DescribeStackDriftDetectionStatus failed")
  /\ UNCHANGED << inputVars, cfnStacks, cfnStackNames, i, differenceCount,
                  editedStackCount, stackDriftDetected, outputs, elapsed,
                  driftDetectionRequests, detectRes, driftFlag, detections,
                  startCalls, observed, driftedSeen, overdue, listCalls,
                  message, comments >>

\* Line 124 and src/unnamed/part_001 lines 34-38: the timer of 5000 ms runs
\* out and the wait loop polls again.
Sleep ==
  /\ pc = "sleep"
  /\ elapsed' = elapsed + SleepMs
  /\ overdue' = (overdue \/
                 (/\ elapsed' > STACK_DETECTION_TIMEOUT
                  /\ \E id \in DOMAIN detections :
                       detections[id] = "DETECTION_IN_PROGRESS"))
  /\ i' = NextToPoll(i, Len(driftDetectionRequests))
  /\ pc' = "poll"
  /\ UNCHANGED << inputVars, cfnStacks, cfnStackNames, differenceCount,
                  editedStackCount, stackDriftDetected, outputs,
                  failedMessage, thrown, driftDetectionRequests, detectRes,
                  driftFlag, detections, startCalls, polled, observed,
                  driftedSeen, listCalls, message, comments >>

\* Lines 131 and 74-75: the poller returns its flag and its locals end with
\* the call; run() stores the flag and sets the output.
PollerReturn ==
  /\ pc = "poll"
  /\ LoopDone(i, Len(driftDetectionRequests))
  /\ stackDriftDetected' = driftFlag
  /\ outputs' = [outputs EXCEPT !.stackDriftDetected = <<driftFlag>>]
  /\ driftDetectionRequests' = <<>>
  /\ detectRes' = NoResponse
  /\ driftFlag' = FALSE
  /\ elapsed' = 0
  /\ pc' = "listResources"
  /\ i' = 1
  /\ UNCHANGED << inputVars, cfnStacks, cfnStackNames, differenceCount,
                  editedStackCount, failedMessage, thrown, detections,
                  startCalls, polled, observed, driftedSeen, overdue,
                  listCalls, message, comments >>

\* The service ends a detection on its own, while the poller runs.
DetectionEnds ==
  /\ pc \in {"detectStart", "poll", "sleep"}
  /\ \E id \in DOMAIN detections :
       /\ detections[id] = "DETECTION_IN_PROGRESS"
       /\ detections' = [detections EXCEPT ![id] = "DETECTION_ENDED"]
  /\ UNCHANGED << pc, inputVars, cfnStacks, cfnStackNames, i, differenceCount,
                  editedStackCount, stackDriftDetected, outputs,
                  failedMessage, thrown, elapsed, driftDetectionRequests,
                  detectRes, driftFlag, startCalls, polled, observed,
                  driftedSeen, overdue, listCalls, message, comments >>

\* -------------------------------------------------- retrieveStackResources

\* Lines 138-144, one iteration.
ListStackResources ==
  /\ pc = "listResources"
  /\ ~LoopDone(i, Len(cfnStackNames))
  /\ listCalls' = Append(listCalls, cfnStackNames[i])
  /\ \/ /\ i' = i + 1
        /\ UNCHANGED << pc, thrown, failedMessage >>
     \/ /\ Throw("ListStackResources failed")
        /\ UNCHANGED i
  /\ UNCHANGED << inputVars, cfnStacks, cfnStackNames, differenceCount,
                  editedStackCount, stackDriftDetected, outputs, pollerVars,
                  message, comments >>

\* ------------------------------------------------------- report, comments

\* Lines 82-92: the argument of makeDiffMessage.
Option ==
  [stackNames |-> stackNames,
   stackTemplates |-> stackTemplates,
   cfnStackNames |-> cfnStackNames,
   editedStackCount |-> editedStackCount,
   stackDriftDetected |-> stackDriftDetected,
   templateDiff |-> templateDiff,
   differenceCount |-> differenceCount,
   cfnStackResourcesSummaries |-> cfnStackResourcesSummaries,
   cfnStacks |-> cfnStacks]

\* Lines 81-93: the report is made from what was fetched.
MakeDiffMessage ==
  /\ pc = "listResources"
  /\ LoopDone(i, Len(cfnStackNames))
  /\ message' = << makeDiffMessage(Option, enableDriftDetection) >>
  /\ pc' = IF replaceComments THEN "removeOldComment" ELSE "postComment"
  /\ UNCHANGED << inputVars, cfnStacks, cfnStackNames, i, differenceCount,
                  editedStackCount, stackDriftDetected, outputs,
                  failedMessage, thrown, pollerVars, listCalls, comments >>

\* removeOldComment, lines 333-336.
AllBotComments(cs) == {c \in cs : c.login = BotLogin}

CommentsToDelete(cs) == {c \in cs : c.login = BotLogin /\ c.hasTitle}

\* Lines 329-340: the comments are listed and each old comment of the bot is
\* deleted; a delete command that fails is reported with setFailed and the
\* loop goes on. A listing that fails leaves nothing to parse.
RemoveOldComment ==
  /\ pc = "removeOldComment"
  /\ \/ \E kept \in SUBSET CommentsToDelete(comments) :
          /\ comments' = (comments \ CommentsToDelete(comments)) \cup kept
          /\ failedMessage' =
               IF kept = {} THEN failedMessage ELSE ShellFailedMessage
          /\ pc' = "postComment"
          /\ UNCHANGED thrown
     \/ /\ Throw("Unexpected end of JSON input")
        /\ UNCHANGED comments
  /\ UNCHANGED << inputVars, cfnStacks, cfnStackNames, i, differenceCount,
                  editedStackCount, stackDriftDetected, outputs, pollerVars,
                  listCalls, message >>

\* Lines 342-346: the report is posted; a command that fails is reported
\* with setFailed.
PostComment ==
  /\ pc = "postComment"
  /\ \/ /\ comments' = comments \cup {NewComment}
        /\ UNCHANGED failedMessage
     \/ /\ failedMessage' = ShellFailedMessage
        /\ UNCHANGED comments
  /\ pc' = "done"
  /\ UNCHANGED << inputVars, cfnStacks, cfnStackNames, i, differenceCount,
                  editedStackCount, stackDriftDetected, outputs, thrown,
                  pollerVars, listCalls, message >>

Next ==
  /\ \/ Synth
     \/ ListStacks
     \/ ListStacksFail
     \/ GetTemplate
     \/ DiffTemplates
     \/ DetectStart
     \/ StartPolling
     \/ Poll
     \/ PollFail
     \/ Sleep
     \/ PollerReturn
     \/ DetectionEnds
     \/ ListStackResources
     \/ MakeDiffMessage
     \/ RemoveOldComment
     \/ PostComment
  /\ UNCHANGED reportVars

Spec == Init /\ [][Next]_vars

\* ------------------------------------------- makeDiffMessage on its own

\* diffTemplate (line 66) on one logical id: the change between the type
\* the deployed template declares for it and the type the desired template
\* declares, `changed' telling whether its properties differ.
DiffResource(oldType, newType, changed) ==
  IF oldType = Absent /\ newType = Absent THEN NoChange
  ELSE IF oldType = Absent
  THEN [changeImpact |-> "WILL_CREATE", newResourceType |-> newType,
        resourceType |-> newType]
  ELSE IF newType = Absent
  THEN [changeImpact |-> "WILL_DESTROY", newResourceType |-> Absent,
        resourceType |-> oldType]
  ELSE IF oldType # newType
  THEN [changeImpact |-> "WILL_REPLACE", newResourceType |-> newType,
        resourceType |-> Absent]
  ELSE [changeImpact |-> IF changed THEN "WILL_UPDATE" ELSE "NO_CHANGE",
        newResourceType |-> newType, resourceType |-> newType]

\* What a deployed and a desired stack hold under the first logical id:
\* nothing, a resource to create, one to destroy, one kept or updated, one
\* whose type changes, or the metadata resource.
FirstResourceCases ==
  { [old |-> Absent, new |-> Absent, changed |-> FALSE, drift |-> Absent] }
  \cup { [old |-> Absent, new |-> t, changed |-> FALSE, drift |-> Absent]
           : t \in {"AWS::S3::Bucket", MetadataType} }
  \cup { [old |-> "AWS::S3::Bucket", new |-> t, changed |-> c, drift |-> d]
           : t \in {Absent, "AWS::S3::Bucket"}, c \in BOOLEAN,
             d \in {"MODIFIED", "IN_SYNC"} }
  \cup { [old |-> "AWS::S3::Bucket", new |-> "AWS::SQS::Queue",
          changed |-> TRUE, drift |-> "IN_SYNC"],
         [old |-> MetadataType, new |-> MetadataType, changed |-> FALSE,
          drift |-> "NOT_CHECKED"] }

\* The same under the second logical id: nothing, a resource to create, or
\* one that is kept.
SecondResourceCases ==
  { [old |-> Absent, new |-> Absent, changed |-> FALSE, drift |-> Absent],
    [old |-> Absent, new |-> "AWS::SQS::Queue", changed |-> FALSE,
     drift |-> Absent],
    [old |-> "AWS::SQS::Queue", new |-> "AWS::SQS::Queue", changed |-> FALSE,
     drift |-> "NOT_CHECKED"] }

StackCases ==
  { [n \in LogicalIds |-> IF n = "R1" THEN a ELSE b]
      : a \in FirstResourceCases, b \in SecondResourceCases }

\* A stack that is not deployed holds no resource yet.
NewStackCases == { c \in StackCases : \A n \in LogicalIds : c[n].old = Absent }

NoStack ==
  [n \in LogicalIds |->
     [old |-> Absent, new |-> Absent, changed |-> FALSE, drift |-> Absent]]

\* The cases of a stack name: of a deployed desired stack, of a desired
\* stack that is not deployed, of a name that is not desired.
CasesOf(wanted, deployed) ==
  IF ~wanted THEN {NoStack} ELSE IF deployed THEN StackCases ELSE NewStackCases

\* retrieveStackResources, lines 134-146, on a stack that holds the given
\* resources: the summaries in listing order.
ListedResources(case) ==
  LET ids == SelectSeq(LogicalIdOrder, LAMBDA n : case[n].old # Absent)
  IN  [k \in 1..Len(ids) |->
         [LogicalResourceId |-> ids[k], ResourceType |-> case[ids[k]].old,
          DriftStatus |-> case[ids[k]].drift]]

\* Lines 63-66: the resource changes of a desired stack, against the
\* deployed template, or against {} when the stack is not deployed.
ChangesOf(case, deployed) ==
  [n \in LogicalIds |->
     DiffResource(IF deployed THEN case[n].old ELSE Absent, case[n].new,
                  case[n].changed)]

SomeChange(changes) ==
  \E n \in LogicalIds : changes[n].changeImpact \notin {Absent, "NO_CHANGE"}

\* Whether the diff of a stack counts differences: it does when a resource
\* changes, and it may when the stack is desired, as other parts of a
\* template than its resources can differ.
Differs(wanted, changes) ==
  IF SomeChange(changes) THEN {TRUE} ELSE IF wanted THEN BOOLEAN ELSE {FALSE}

\* The state of run() before line 82, the poller and the collector over:
\* the values that do not depend on the templates and the resources.
BeforeMessage ==
  /\ pc = "listResources"
  /\ replaceComments = FALSE
  /\ cfnStackNames = FilterStackNames(cfnStacks, stackNames)
  /\ i = Len(cfnStackNames) + 1
  /\ listCalls = cfnStackNames
  /\ editedStackCount = CountEdited(stackNames, differenceCount)
  /\ outputs = [editedStackCount |-> <<editedStackCount>>,
                stackDriftDetected |->
                  IF enableDriftDetection THEN <<stackDriftDetected>> ELSE <<>>]
  /\ failedMessage = ""
  /\ thrown = ""
  /\ elapsed = 0
  /\ driftDetectionRequests = <<>>
  /\ detectRes = NoResponse
  /\ driftFlag = FALSE
  /\ detections = <<>>
  /\ startCalls = IF enableDriftDetection THEN cfnStackNames ELSE <<>>
  /\ polled = <<>>
  /\ observed = {}
  /\ driftedSeen = stackDriftDetected
  /\ overdue = FALSE
  /\ message = <<>>
  /\ comments = InitComments

\* Desired stacks and a ListStacks response, each stack holding one of the
\* resource cases; other parts of a template than its resources may differ
\* too.
StackInputs ==
  /\ enableDriftDetection \in BOOLEAN
  /\ stackDriftDetected \in (IF enableDriftDetection THEN BOOLEAN ELSE {FALSE})
  /\ stackNames \in DesiredStackLists
  /\ cfnStacks \in StackSummaryLists
  /\ \E a \in CasesOf(Includes(stackNames, "A"),
                       Includes(FilterStackNames(cfnStacks, stackNames), "A")),
        b \in CasesOf(Includes(stackNames, "B"),
                       Includes(FilterStackNames(cfnStacks, stackNames), "B")) :
       LET live == FilterStackNames(cfnStacks, stackNames)
           want(n) == Includes(stackNames, n)
           case == [n \in StackNameSet |-> IF n = "A" THEN a ELSE b]
           changes == [n \in StackNameSet |->
                         IF want(n) THEN ChangesOf(case[n], Includes(live, n))
                         ELSE NoChanges]
       IN  \E differsA \in Differs(want("A"), changes["A"]),
              differsB \in Differs(want("B"), changes["B"]) :
           /\ stackTemplates =
                [n \in StackNameSet |->
                   IF want(n) THEN [r \in LogicalIds |-> case[n][r].new]
                   ELSE NoResources]
           /\ templateDiff = changes
           /\ differenceCount =
                [n \in StackNameSet |->
                   IF (IF n = "A" THEN differsA ELSE differsB) THEN 2 ELSE 0]
           /\ cfnStackResourcesSummaries =
                [n \in StackNameSet |->
                   IF Includes(live, n) THEN ListedResources(case[n]) ELSE <<>>]
  /\ BeforeMessage

\* One deployed stack with one listed resource: every resource type, drift
\* status, resource change and template type the row of the resource can
\* be made from (drift detection does not check a metadata resource).
RowInputs ==
  /\ enableDriftDetection \in BOOLEAN
  /\ stackDriftDetected = FALSE
  /\ stackNames = <<"A">>
  /\ cfnStacks = << [StackName |-> "A", StackId |-> 1,
                     StackStatus |-> "CREATE_COMPLETE"] >>
  /\ \E type \in ResourceTypes \cup {MetadataType},
        drift \in DriftStatuses \cup {Absent},
        impact \in ChangeImpacts \cup {Absent},
        newType \in {Absent, "AWS::S3::Bucket", MetadataType},
        oldType \in {Absent, "AWS::S3::Bucket", MetadataType},
        templateType \in {Absent, "AWS::S3::Bucket", MetadataType} :
       /\ impact = Absent => newType = Absent /\ oldType = Absent
       /\ type = MetadataType => drift \in {Absent, "NOT_CHECKED"}
       /\ stackTemplates =
            [n \in StackNameSet |->
               IF n = "A" THEN [NoResources EXCEPT !["R1"] = templateType]
               ELSE NoResources]
       /\ templateDiff =
            [n \in StackNameSet |->
               IF n = "A"
               THEN [NoChanges EXCEPT !["R1"] =
                       [changeImpact |-> impact, newResourceType |-> newType,
                        resourceType |-> oldType]]
               ELSE NoChanges]
       /\ differenceCount =
            [n \in StackNameSet |->
               IF n = "A" /\ impact \notin {Absent, "NO_CHANGE"} THEN 2 ELSE 0]
       /\ cfnStackResourcesSummaries =
            [n \in StackNameSet |->
               IF n = "A"
               THEN << [LogicalResourceId |-> "R1", ResourceType |-> type,
                        DriftStatus |-> drift] >>
               ELSE <<>>]
  /\ BeforeMessage

InitMessage == StackInputs \/ RowInputs

NextMessage == MakeDiffMessage /\ UNCHANGED reportVars

SpecMessage == InitMessage /\ [][NextMessage]_vars

\* ---------------------------------------------------------------- claims

\* The poller has returned its flag to run().
PollerReturned == outputs.stackDriftDetected # <<>>

\* The errors the claims call fatal: the timeout and the failed calls.
FatalErrors == CfnErrors \cup {TimeoutMessage}

\* C1, as stated: whenever the deadline is exceeded while some detection is
\* still in progress, the poller does not return normally.
C1_DeadlineWhileInProgressFails == PollerReturned => ~overdue

\* C1, amended: the one deadline, measured from the start of the poller, is
\* tested after a poll that answers DETECTION_IN_PROGRESS, whichever request
\* it is: the poller goes on waiting only when no more than 300 s have
\* passed, and it throws the timeout error exactly when more have, with no
\* drift flag returned.
C1_TimeoutOnLateInProgressPoll ==
  /\ pc = "sleep" => elapsed <= STACK_DETECTION_TIMEOUT
  /\ thrown = TimeoutMessage =>
       /\ pc = "failed"
       /\ failedMessage = TimeoutMessage
       /\ elapsed > STACK_DETECTION_TIMEOUT
       /\ detectRes.DetectionStatus = "DETECTION_IN_PROGRESS"
       /\ ~PollerReturned

\* Stack D (request 1) was seen terminal, stack E (request 2) answered in
\* progress past the deadline, and the run failed with the timeout.
C1_Witness ==
  /\ thrown = TimeoutMessage
  /\ 1 \in observed
  /\ i = 2
  /\ elapsed = STACK_DETECTION_TIMEOUT + SleepMs

C3_AllStartedBeforePolling ==
  (pc \in {"poll", "sleep"} \/ \E j \in DOMAIN polled : polled[j])
    => startCalls = cfnStackNames

\* A poll was issued in a run with two deployed stacks.
C3_Witness == Len(cfnStackNames) = 2 /\ polled # <<>> /\ polled[1]

\* C4: with drift detection enabled, the resources of a deployed stack are
\* listed only after the detection request of that stack was seen terminal.
C4_ListAfterTerminal ==
  enableDriftDetection =>
    \A k \in DOMAIN listCalls :
      /\ k \in observed
      /\ startCalls[k] = listCalls[k]

\* The resources of two stacks were listed after their detections.
C4_Witness == enableDriftDetection /\ Len(listCalls) = 2

\* C5: a run that failed with the timeout or a failed CloudFormation call
\* has posted no comment and deleted none, and carries the error's message.
C5_NoCommentOnFatalFailure ==
  (pc = "failed" /\ thrown \in FatalErrors) =>
    /\ comments = InitComments
    /\ failedMessage = thrown

\* The resource listing failed in a run that replaces comments.
C5_Witness ==
  /\ pc = "failed"
  /\ thrown = "ListStackResources failed"
  /\ replaceComments

\* C6: a run that ended with a fatal error has emitted neither output nor
\* the report.
C6_NoPartialOutput ==
  (pc = "failed" /\ thrown \in FatalErrors) =>
    /\ outputs.editedStackCount = <<>>
    /\ outputs.stackDriftDetected = <<>>
    /\ message = <<>>

\* C7: no stack name gets more than one detection-start request in a run.
C7_OneStartPerStackName ==
  \A j, k \in DOMAIN startCalls : j # k => startCalls[j] # startCalls[k]

C9_FlagIsOrOfDrifted ==
  /\ pc \in {"poll", "sleep"} => driftFlag = driftedSeen
  /\ PollerReturned =>
       /\ stackDriftDetected = driftedSeen
       /\ outputs.stackDriftDetected = <<driftedSeen>>

\* The first stack drifted, the second was seen terminal and in sync, and the
\* flag is still set.
C9_Witness ==
  /\ pc = "poll"
  /\ i = 3
  /\ detectRes.StackDriftStatus = "IN_SYNC"
  /\ driftFlag

\* C10: a completed run has set the stack-drift-detected output to true if
\* drift detection is enabled and some stack drifted, and to false otherwise.
C10_OutputTrueOrFalse ==
  pc = "done" =>
    outputs.stackDriftDetected = << enableDriftDetection /\ driftedSeen >>

\* ------------------------------------------------- claims on the report

\* makeDiffMessage has returned; Report is what it returned.
Rendered == pc # "listResources" /\ message # <<>>

Report == message[1]

\* The desired names, the names of the sections, the sections of a name.
NamesOf(names) == { names[k] : k \in DOMAIN names }

SectionsOf(stackName) ==
  { k \in DOMAIN Report.sections : Report.sections[k].stackName = stackName }

\* A deployed stack of that name is listed with a status that is neither
\* DELETE_COMPLETE nor REVIEW_IN_PROGRESS.
Survives(stackName) ==
  \E k \in DOMAIN cfnStacks :
    /\ cfnStacks[k].StackName = stackName
    /\ cfnStacks[k].StackStatus \notin {"DELETE_COMPLETE", "REVIEW_IN_PROGRESS"}

\* C11: every desired stack is classified in the report: new if no deployed
\* stack of its name survives the status filter, otherwise changed if the
\* differenceCount of its diff is positive, otherwise unchanged.
C11_Classification ==
  Rendered =>
    \A n \in NamesOf(stackNames) :
      /\ SectionsOf(n) # {}
      /\ \A k \in SectionsOf(n) :
           Report.sections[k].status =
             IF ~Survives(n) THEN "new"
             ELSE IF differenceCount[n] > 0 THEN "diff"
             ELSE "not_changed"

\* A stack listed only as REVIEW_IN_PROGRESS is new though its diff counts
\* differences, next to a deployed stack without differences.
C11_Witness ==
  /\ Rendered
  /\ \E k \in DOMAIN cfnStacks :
       cfnStacks[k] = [StackName |-> "A", StackId |-> k,
                       StackStatus |-> "REVIEW_IN_PROGRESS"]
  /\ differenceCount["A"] > 0
  /\ \E k \in SectionsOf("A") : Report.sections[k].status = "new"
  /\ \E k \in SectionsOf("B") : Report.sections[k].status = "not_changed"

\* The logical ids of the rows of a section, and the ids the desired
\* template of a stack declares with a type other than the metadata marker.
RowIds(section) == { section.rows[k].logicalId : k \in DOMAIN section.rows }

DeclaredIds(stackName) ==
  { r \in LogicalIds :
      stackTemplates[stackName][r] \notin {Absent, MetadataType} }

\* C12: the rows of the section of a new stack are exactly the logical ids
\* the desired template declares, the metadata marker type left out, and
\* every one of them is labelled "create".
C12_NewStackRowsAreDeclaredIds ==
  Rendered =>
    \A k \in DOMAIN Report.sections :
      LET section == Report.sections[k]
      IN  section.status = "new" =>
            /\ RowIds(section) = DeclaredIds(section.stackName)
            /\ \A j \in DOMAIN section.rows :
                 section.rows[j].diffMsg = "Create"

\* The listed resources of a stack, and the logical ids among them.
Listed(stackName) ==
  ResourcesOf(cfnStackResourcesSummaries, cfnStackNames, stackName)

ListedIds(stackName) ==
  { Listed(stackName)[k].LogicalResourceId : k \in DOMAIN Listed(stackName) }

\* The ids of a stack that are deployed or that the diff gives an impact,
\* without those of the metadata marker type.
DeployedOrChangedIds(stackName) ==
  { r \in LogicalIds :
      /\ \/ r \in ListedIds(stackName)
         \/ templateDiff[stackName][r].changeImpact \notin {Absent, "NO_CHANGE"}
      /\ \A k \in DOMAIN Listed(stackName) :
           Listed(stackName)[k].LogicalResourceId = r
             => Listed(stackName)[k].ResourceType # MetadataType
      /\ r \notin ListedIds(stackName)
           => ResolveType(templateDiff[stackName][r],
                          stackTemplates[stackName][r]) # MetadataType }

\* C13: the row ids of the section of a changed or unchanged stack are the
\* union of the deployed resource ids and the ids whose diff impact is not
\* none, the metadata rows left out; so a resource to create that is not
\* deployed yet has a row.
C13_RowsAreDeployedOrChanged ==
  Rendered =>
    \A k \in DOMAIN Report.sections :
      LET section == Report.sections[k]
      IN  section.status # "new" =>
            RowIds(section) = DeployedOrChangedIds(section.stackName)

\* The listed resources of a stack whose drift status is MODIFIED.
ModifiedIds(stackName) ==
  { Listed(stackName)[k].LogicalResourceId :
      k \in { j \in DOMAIN Listed(stackName) :
                Listed(stackName)[j].DriftStatus = "MODIFIED" } }

\* C14: a deployed stack whose diff counts no difference and that has a
\* resource with the drift status MODIFIED is not left out of the report:
\* it has its section, and the section has the row of the resource.
C14_DriftedUnchangedStackIsShown ==
  Rendered =>
    \A n \in NamesOf(stackNames) :
      (Survives(n) /\ differenceCount[n] = 0 /\ ModifiedIds(n) # {}) =>
        /\ SectionsOf(n) # {}
        /\ \A k \in SectionsOf(n) :
             /\ Report.sections[k].status = "not_changed"
             /\ ModifiedIds(n) \subseteq RowIds(Report.sections[k])

\* The unchanged stack A has the drifted resource R1, and its section shows
\* the row of R1.
C14_Witness ==
  /\ Rendered
  /\ Survives("A")
  /\ differenceCount["A"] = 0
  /\ "R1" \in ModifiedIds("A")
  /\ \E k \in SectionsOf("A") : "R1" \in RowIds(Report.sections[k])

\* C15: the report has exactly one section for each desired stack, in the
\* order of the desired stack list, whatever the inputs; a deployed stack
\* without resources and without differences has its section too, with no
\* rows.
C15_OneSectionPerDesiredStack ==
  Rendered =>
    /\ Len(Report.sections) = Len(stackNames)
    /\ \A k \in DOMAIN stackNames :
         /\ Report.sections[k].stackName = stackNames[k]
         /\ (Survives(stackNames[k]) /\ Listed(stackNames[k]) = <<>>
             /\ differenceCount[stackNames[k]] = 0)
              => Report.sections[k].rows = <<>>

\* Two desired stacks; the second is deployed, has no resources and no
\* differences, and the second section is its section, without rows.
C15_Witness ==
  /\ Rendered
  /\ stackNames = <<"A", "B">>
  /\ Survives("B")
  /\ Listed("B") = <<>>
  /\ differenceCount["B"] = 0
  /\ Len(Report.sections) = 2
  /\ Report.sections[2].stackName = "B"
  /\ Report.sections[2].rows = <<>>

\* C16: no row of the report shows the metadata marker as its resource
\* type, whatever types the diff, the desired template and the listed
\* resource give and whatever the drift status is.
C16_NoMetadataTypeInRows ==
  Rendered =>
    \A k \in DOMAIN Report.sections :
      \A j \in DOMAIN Report.sections[k].rows :
        /\ Report.sections[k].rows[j].type # MetadataType
        /\ \A c \in DOMAIN Report.sections[k].rows[j].cells :
             Report.sections[k].rows[j].cells[c].text # MetadataType

\* The drift status the listing gives the resource of a row.
DriftStatusOf(stackName, logicalId) ==
  LET k == CHOOSE j \in DOMAIN Listed(stackName) :
             Listed(stackName)[j].LogicalResourceId = logicalId
  IN  Listed(stackName)[k].DriftStatus

\* The drift label of a row is the alert with a link that carries a stack
\* id of the stack and the logical id of the row.
IsAlertWithLink(stackName, row) ==
  /\ row.driftMsg.text = "(alert) MODIFIED"
  /\ Len(row.driftMsg.link) = 1
  /\ row.driftMsg.link[1].logicalResourceId = row.logicalId
  /\ \E k \in DOMAIN cfnStacks :
       /\ cfnStacks[k].StackName = stackName
       /\ cfnStacks[k].StackId = row.driftMsg.link[1].stackId

\* The drift labels of the three statuses the program knows are as stated.
KnownDriftLabel(stackName, row, status) ==
  /\ status = "NOT_CHECKED" => row.driftMsg = Cell("(warning) NOT_CHECKED")
  /\ status = "MODIFIED" => IsAlertWithLink(stackName, row)
  /\ status = "IN_SYNC" => row.driftMsg = Cell("(success) IN_SYNC")

\* C17 as stated: the drift label of a row follows from the drift status
\* alone: warning for NOT_CHECKED, alert with link for MODIFIED, success
\* for IN_SYNC, and the empty label for every other or absent status.
C17_OtherStatusGivesEmptyLabel ==
  Rendered =>
    \A k \in DOMAIN Report.sections :
      \A j \in DOMAIN Report.sections[k].rows :
        LET row == Report.sections[k].rows[j]
            status == DriftStatusOf(Report.sections[k].stackName, row.logicalId)
        IN  /\ KnownDriftLabel(Report.sections[k].stackName, row, status)
            /\ status \notin {"NOT_CHECKED", "MODIFIED", "IN_SYNC"}
                 => row.driftMsg = Cell("")

\* C17, amended: the same for the three known statuses; an absent status
\* gives the empty label, and any other status is shown as the bare status
\* text without a link.
C17_OtherStatusIsShownAsIs ==
  Rendered =>
    \A k \in DOMAIN Report.sections :
      \A j \in DOMAIN Report.sections[k].rows :
        LET row == Report.sections[k].rows[j]
            status == DriftStatusOf(Report.sections[k].stackName, row.logicalId)
        IN  /\ KnownDriftLabel(Report.sections[k].stackName, row, status)
            /\ status = Absent => row.driftMsg = Cell("")
            /\ status \notin {"NOT_CHECKED", "MODIFIED", "IN_SYNC", Absent}
                 => row.driftMsg = Cell(status)

\* The row of a resource whose drift status is DELETED carries the label
\* DELETED.
C17_Witness ==
  /\ Rendered
  /\ \E k \in DOMAIN Report.sections :
       \E j \in DOMAIN Report.sections[k].rows :
         LET row == Report.sections[k].rows[j]
         IN  /\ DriftStatusOf(Report.sections[k].stackName, row.logicalId)
                  = "DELETED"
             /\ row.driftMsg = Cell("DELETED")

\* The impact the diff gives the resource of a row (Absent without entry).
ImpactOf(stackName, logicalId) == templateDiff[stackName][logicalId].changeImpact

\* C18: the diff label of a row follows from the impact of its diff entry:
\* update, create, replace, may-replace, destroy and remove for WILL_UPDATE,
\* WILL_CREATE, WILL_REPLACE, MAY_REPLACE, WILL_DESTROY and WILL_ORPHAN, and
\* the empty label for NO_CHANGE or no entry; a label is the label of one
\* impact only.
C18_DiffLabelByImpact ==
  Rendered =>
    \A k \in DOMAIN Report.sections :
      \A j \in DOMAIN Report.sections[k].rows :
        LET row == Report.sections[k].rows[j]
            impact == ImpactOf(Report.sections[k].stackName, row.logicalId)
        IN  /\ (impact = "WILL_UPDATE") <=> (row.diffMsg = "Update")
            /\ (impact = "WILL_CREATE") <=> (row.diffMsg = "Create")
            /\ (impact = "WILL_REPLACE") <=> (row.diffMsg = "Replace")
            /\ (impact = "MAY_REPLACE") <=> (row.diffMsg = "May Replace")
            /\ (impact = "WILL_DESTROY") <=> (row.diffMsg = "Destroy")
            /\ (impact = "WILL_ORPHAN") <=> (row.diffMsg = "Remove")
            /\ (impact \in {"NO_CHANGE", Absent}) <=> (row.diffMsg = "")
            /\ row.cells[1] = Cell(row.diffMsg)

\* The row of a resource the diff marks WILL_ORPHAN is labelled remove.
C18_Witness ==
  /\ Rendered
  /\ ImpactOf("A", "R1") = "WILL_ORPHAN"
  /\ \E k \in SectionsOf("A") :
       \E j \in DOMAIN Report.sections[k].rows :
         /\ Report.sections[k].rows[j].logicalId = "R1"
         /\ Report.sections[k].rows[j].diffMsg = "Remove"

\* The desired stacks whose diff counts a difference.
EditedStacks == { n \in NamesOf(stackNames) : differenceCount[n] > 0 }

\* C19: the edited-stack-count output is the number of desired stacks whose
\* differenceCount is positive, and the banner of the report tells that
\* count (at the least, whether it is zero) and whether a stack drifted.
C19_BannerReportsEditedCount ==
  Rendered =>
    /\ outputs.editedStackCount = << Cardinality(EditedStacks) >>
    /\ Report.noChanges <=> (Cardinality(EditedStacks) = 0)
    /\ Report.driftDetected <=> stackDriftDetected

\* C20: with drift detection disabled no table has a drift column and no
\* row carries its drift label, whatever drift statuses the listed
\* resources hold; with drift detection enabled every table has the drift
\* column, and every row its drift label in it.
C20_DriftColumnOnlyWhenEnabled ==
  Rendered =>
    \A k \in DOMAIN Report.sections :
      LET section == Report.sections[k]
      IN  /\ section.header = IF enableDriftDetection
                              THEN <<"Diff", "Drift", "Type", "Logical ID">>
                              ELSE <<"Diff", "Type", "Logical ID">>
          /\ \A j \in DOMAIN section.rows :
               LET row == section.rows[j]
               IN  row.cells =
                     IF enableDriftDetection
                     THEN <<Cell(row.diffMsg), row.driftMsg, Cell(row.type),
                            Cell(row.logicalId)>>
                     ELSE <<Cell(row.diffMsg), Cell(row.type),
                            Cell(row.logicalId)>>

\* Drift detection is disabled, a listed resource holds the drift status
\* MODIFIED all the same, and its row has three cells under three columns.
C20_Witness ==
  /\ Rendered
  /\ ~enableDriftDetection
  /\ "R1" \in ModifiedIds("A")
  /\ \E k \in SectionsOf("A") :
       /\ Len(Report.sections[k].header) = 3
       /\ \E j \in DOMAIN Report.sections[k].rows :
            /\ Report.sections[k].rows[j].logicalId = "R1"
            /\ Len(Report.sections[k].rows[j].cells) = 3

\* The stack ids the listing gives the deployed stacks of a name that pass
\* the status filter.
SurvivingIds(stackName) ==
  { cfnStacks[k].StackId :
      k \in { j \in DOMAIN cfnStacks :
                /\ cfnStacks[j].StackName = stackName
                /\ cfnStacks[j].StackStatus
                     \notin {"DELETE_COMPLETE", "REVIEW_IN_PROGRESS"} } }

\* C21: for every stack that is not new, the stack id in the link of the
\* heading and in the drift link of each MODIFIED resource is the id of a
\* deployed stack of that name that passed the status filter, also when the
\* listing holds an earlier entry of the same name in an excluded status.
C21_LinkedStackIdPassedTheFilter ==
  Rendered =>
    \A k \in DOMAIN Report.sections :
      LET section == Report.sections[k]
      IN  section.status # "new" =>
            /\ Len(section.link) = 1
            /\ section.link[1].stackId \in SurvivingIds(section.stackName)
            /\ \A j \in DOMAIN section.rows :
                 \A l \in DOMAIN section.rows[j].driftMsg.link :
                   section.rows[j].driftMsg.link[l].stackId
                     \in SurvivingIds(section.stackName)

\* ------------------------------------------- detectStackDrift on its own

\* run() at line 74 with drift detection enabled: the deployed desired
\* stacks are known and the templates are diffed.
InitPoller ==
  /\ pc = "detectStart"
  /\ enableDriftDetection = TRUE
  /\ replaceComments = FALSE
  /\ stackNames \in DesiredStackLists
  /\ cfnStacks \in { l \in StackSummaryLists :
                       \A k \in DOMAIN l : l[k].StackStatus = "CREATE_COMPLETE" }
  /\ cfnStackNames = FilterStackNames(cfnStacks, stackNames)
  /\ i = 1
  /\ differenceCount = [n \in StackNameSet |-> 0]
  /\ editedStackCount = 0
  /\ stackDriftDetected = FALSE
  /\ outputs = [editedStackCount |-> <<0>>, stackDriftDetected |-> <<>>]
  /\ failedMessage = ""
  /\ thrown = ""
  /\ elapsed = 0
  /\ driftDetectionRequests = <<>>
  /\ detectRes = NoResponse
  /\ driftFlag = FALSE
  /\ detections = <<>>
  /\ startCalls = <<>>
  /\ polled = <<>>
  /\ observed = {}
  /\ driftedSeen = FALSE
  /\ listCalls = <<>>
  /\ overdue = FALSE
  /\ message = <<>>
  /\ comments = InitComments
  /\ stackTemplates = [n \in StackNameSet |-> NoResources]
  /\ templateDiff = [n \in StackNameSet |-> NoChanges]
  /\ cfnStackResourcesSummaries = [n \in StackNameSet |-> <<>>]

\* The steps of detectStackDrift, lines 97-132: a step is taken whenever
\* the awaited call returns or the timer of the sleep runs out.
PollerStep ==
  /\ \/ DetectStart
     \/ StartPolling
     \/ Poll
     \/ PollFail
     \/ Sleep
     \/ PollerReturn
  /\ UNCHANGED reportVars

NextPoller ==
  \/ PollerStep
  \/ DetectionEnds /\ UNCHANGED reportVars

SpecPoller == InitPoller /\ [][NextPoller]_vars /\ WF_vars(PollerStep)

\* The poller is running; a step of it that polls the request i.
InPoller == pc \in {"detectStart", "poll", "sleep"}

IsPoll ==
  /\ pc = "poll"
  /\ i <= Len(driftDetectionRequests)
  /\ (pc' # pc \/ i' # i)

\* The poller has ended with every call returned: it returned its flag or
\* threw the timeout error.
PollerEnded ==
  \/ PollerReturned
  \/ pc = "failed" /\ thrown = TimeoutMessage

\* The sleeps the deadline still allows, and with them a number that no
\* step of the wait loops leaves as it is: each poll and each sleep takes
\* from it.
SleepsLeft ==
  IF elapsed > STACK_DETECTION_TIMEOUT THEN 0
  ELSE (STACK_DETECTION_TIMEOUT - elapsed) \div SleepMs + 1

StepsLeft ==
  2 * (Len(driftDetectionRequests) + 1 - i) + 2 * SleepsLeft
    + (IF pc = "poll" THEN 1 ELSE 0)

\* C22 as stated, its first part: when the poller has ended, every request
\* has been polled at least once.
C22_EveryRequestPolled ==
  PollerEnded => \A k \in DOMAIN polled : polled[k]

\* C22, amended: the poller ends whenever every call returns; a request is
\* polled at least once before the poller returns its flag; a request seen
\* with a terminal status is not polled again; a poll past the deadline
\* that is answered in progress throws the timeout error; and the polls and
\* sleeps that may follow are bounded by a number every step lowers.
C22_PollerTerminates ==
  /\ [][ /\ IsPoll => i \notin observed
         /\ (/\ IsPoll
             /\ elapsed > STACK_DETECTION_TIMEOUT
             /\ thrown' \notin CfnErrors
             /\ detectRes'.DetectionStatus = "DETECTION_IN_PROGRESS")
              => pc' = "failed" /\ thrown' = TimeoutMessage
         /\ (pc \in {"poll", "sleep"}
             /\ (pc' # pc \/ i' # i \/ elapsed' # elapsed))
              => /\ StepsLeft > 0
                 /\ pc' \in {"poll", "sleep"} => StepsLeft' < StepsLeft
         /\ (pc = "poll" /\ pc' = "listResources")
              => \A k \in DOMAIN polled : polled[k] ]_vars
  /\ InPoller ~> ~InPoller

\* The poller threw the timeout error on the first of two requests; the
\* second was never polled.
C22_Witness ==
  /\ pc = "failed"
  /\ thrown = TimeoutMessage
  /\ polled = <<TRUE, FALSE>>

\* The comments of the bot that carry the comment title.
TitledBotComments(cs) == { c \in cs : c.login = BotLogin /\ c.hasTitle }

\* The run has ended and nothing in it failed.
Succeeded == pc = "done" /\ failedMessage = "" /\ thrown = ""

C24_NoDetectionWhenDisabled ==
  ~enableDriftDetection =>
    /\ startCalls = <<>>
    /\ polled = <<>>
    /\ detections = <<>>
    /\ observed = {}
    /\ pc \notin {"detectStart", "poll", "sleep"}
    /\ ~PollerReturned
    /\ pc = "done" =>
         /\ listCalls = cfnStackNames
         /\ Rendered
         /\ Len(Report.sections) = Len(stackNames)
         /\ (NewComment \in comments \/ failedMessage = ShellFailedMessage)

\* Drift detection is disabled; the run listed the resources of two
\* deployed stacks, made the report and posted it.
C24_Witness ==
  /\ ~enableDriftDetection
  /\ pc = "done"
  /\ Len(listCalls) = 2
  /\ Rendered
  /\ NewComment \in comments
  /\ startCalls = <<>>

====
